---------------------------- MODULE Spec2Model ----------------------------
(***************************************************************************)
(* A model of the requirements.txt -> pyproject.toml converter             *)
(* (src/src/requirements_to_pyproject.py and its orchestration variant     *)
(* src/src/uv_requirements_to_pyproject.py).                               *)
(*                                                                         *)
(* Text is a sequence of one-character strings, so that strip, split,      *)
(* join and the three regular expressions are computed character by        *)
(* character as Python computes them.                                      *)
(***************************************************************************)
EXTENDS Integers, Sequences, FiniteSets, TLC

VARIABLES
    req,            \* SpecFormat: the Requirement handed to format_dependency
    token,          \* SpecFormat: format_dependency(req), or None
    token2,         \* SpecFormat: format_dependency(token)
    fpc,            \* SpecFormat: position of the formatter run
    content,        \* text of requirements.txt
    requirements,   \* list returned by parse_requirements
    block,          \* text returned by generate_dependencies_section
    valid,          \* value returned by the validator
    validate,       \* whether --validate was given (always on in the uv variant)
    pc,             \* position in main
    files,          \* files present in the script directory
    manifest,       \* text of pyproject.toml (symbols, see ManifestAlphabet)
    readonly,       \* whether pyproject.toml refuses writes
    uvOnPath,       \* whether shutil.which("uv") finds the tool
    printed,        \* kinds of messages written to the console, in order
    steps,          \* orchestration steps started, in order
    deleted,        \* files main has unlinked, in order
    exitCode        \* process exit status, NoExit while running

vars == <<req, token, token2, fpc, content, requirements, block, valid, validate, pc,
          files, manifest, readonly, uvOnPath, printed, steps, deleted, exitCode>>

fmtVars == <<req, token, token2, fpc>>
convVars == <<content, requirements, block, valid, validate>>
envVars == <<files, manifest, readonly, uvOnPath, steps, deleted>>

-----------------------------------------------------------------------------
(* Bounds *)

MaxReqLen == 5
MaxFileLen == 5
MaxManifestLen == 4
MaxUvFileLen == 1

\* characters a Requirement is drawn from: a name and version character, a
\* name-only character, an operator, whitespace, the extras brackets, the
\* marker delimiter and a character of no class
ReqAlphabet == {"a", "_", ">", " ", "[", "]", ";", ","}

\* characters requirements.txt is drawn from
FileAlphabet == {"a", ">", " ", "#", "-", ";", "\n"}

\* pyproject.toml is a sequence of symbols: "D[" is a text the pattern
\* dependencies\s*=\s*\[ matches, "]" a closing bracket, "x" any other character
ManifestAlphabet == {"D[", "]", "x"}

-----------------------------------------------------------------------------
(* Text helpers *)

\* Python's None, as returned by format_dependency; no text equals it
None == <<"None">>

NL == "\n"

\* str.isspace() on the characters of the model
IsSpace(c) == c \in {" ", NL}

\* the character class [a-zA-Z0-9_\-\.] of name_pattern
IsNameChar(c) == c \in {"a", "1", "_", "-", "."}

\* the character class [=<>!~] of version_pattern
IsOpChar(c) == c \in {"=", "<", ">", "!", "~"}

\* the character class [0-9a-zA-Z\.\-\*] of version_pattern
IsVerChar(c) == c \in {"a", "1", ".", "-", "*"}

\* all texts over alphabet A of length at most n
Texts(A, n) == UNION {[1..k -> A] : k \in 0..n}

RECURSIVE LStrip(_)
LStrip(s) == IF s # <<>> /\ IsSpace(Head(s)) THEN LStrip(Tail(s)) ELSE s

RECURSIVE RStrip(_)
RStrip(s) ==
    IF s # <<>> /\ IsSpace(s[Len(s)]) THEN RStrip(SubSeq(s, 1, Len(s) - 1)) ELSE s

\* str.strip()
Strip(s) == RStrip(LStrip(s))

\* index of the first occurrence of c in s at or after i, 0 if there is none
RECURSIVE Find(_, _, _)
Find(s, c, i) ==
    IF i > Len(s) THEN 0
    ELSE IF s[i] = c THEN i
    ELSE Find(s, c, i + 1)

\* s.split(c)[0]
BeforeFirst(s, c) ==
    LET k == Find(s, c, 1) IN IF k = 0 THEN s ELSE SubSeq(s, 1, k - 1)

\* sep.join(parts)
RECURSIVE Join(_, _)
Join(parts, sep) ==
    IF parts = <<>> THEN <<>>
    ELSE IF Len(parts) = 1 THEN parts[1]
    ELSE parts[1] \o sep \o Join(Tail(parts), sep)

\* s.split(c)
RECURSIVE Split(_, _)
Split(s, c) ==
    LET k == Find(s, c, 1) IN
    IF k = 0 THEN <<s>>
    ELSE <<SubSeq(s, 1, k - 1)>> \o Split(SubSeq(s, k + 1, Len(s)), c)

-----------------------------------------------------------------------------
(* format_dependency *)

\* re.sub(r"\[[^\]]+\]", "", s): at a "[", the match runs to the first "]"
\* after it and needs at least one character in between
RECURSIVE RemoveExtras(_)
RemoveExtras(s) ==
    IF s = <<>> THEN <<>>
    ELSE LET j == Find(s, "]", 2) IN
         IF Head(s) = "[" /\ j >= 3
         THEN RemoveExtras(SubSeq(s, j + 1, Len(s)))
         ELSE <<Head(s)>> \o RemoveExtras(Tail(s))

TruncateMarker_keeps_marker(s) == Strip(s)

\* req.split(";")[0].strip()
TruncateMarker(s) == Strip(BeforeFirst(s, ";"))

\* length of the longest run of characters satisfying P that starts at i
RECURSIVE Run(_, _, _)
Run(s, P(_), i) ==
    IF i <= Len(s) /\ P(s[i]) THEN 1 + Run(s, P, i + 1) ELSE 0

\* name_pattern.search(r): the longest prefix of name characters, <<>> = no match
NameMatch(r) == SubSeq(r, 1, Run(r, IsNameChar, 1))

\* version_pattern.findall(r) from index i on: operators, optional
\* whitespace, version characters; matches do not overlap
RECURSIVE FindVersions(_, _)
FindVersions(r, i) ==
    IF i > Len(r) THEN <<>>
    ELSE LET o == Run(r, IsOpChar, i)
             w == Run(r, IsSpace, i + o)
             v == Run(r, IsVerChar, i + o + w)
         IN IF o > 0 /\ v > 0
            THEN <<SubSeq(r, i, i + o + w + v - 1)>> \o FindVersions(r, i + o + w + v)
            ELSE FindVersions(r, i + 1)

\* [v.strip() for v in version_matches]
StripAll(vs) == [k \in 1..Len(vs) |-> Strip(vs[k])]

Token_wrong_variable(name, r, version_matches) ==
    IF version_matches = <<>> THEN name
    ELSE r \o Join(StripAll(version_matches), <<",">>)

\* the two return statements after the name was found
Token(name, r, version_matches) ==
    IF version_matches = <<>> THEN name
    ELSE name \o Join(StripAll(version_matches), <<",">>)

format_dependency(rq) ==
    LET r == TruncateMarker(RemoveExtras(rq))
        name == NameMatch(r)
    IN IF name = <<>> THEN None ELSE Token(name, r, FindVersions(r, 1))

-----------------------------------------------------------------------------
(* parse_requirements *)

\* "for line in file": the lines of the text, each with its line break
RECURSIVE FileLines(_)
FileLines(text) ==
    IF text = <<>> THEN <<>>
    ELSE LET k == Find(text, NL, 1) IN
         IF k = 0 THEN <<text>>
         ELSE <<SubSeq(text, 1, k)>> \o FileLines(SubSeq(text, k + 1, Len(text)))

StartsWith(s, c) == s # <<>> /\ Head(s) = c

ParseLine_keeps_options(raw) ==
    LET line == Strip(raw) IN
    IF line = <<>> \/ StartsWith(line, "#") THEN <<>>
    ELSE LET rest == Strip(BeforeFirst(line, "#")) IN
         IF rest = <<>> THEN <<>> ELSE <<rest>>

\* the body of the loop: the Requirements one line contributes (none or one)
ParseLine(raw) ==
    LET line == Strip(raw) IN
    IF line = <<>> \/ StartsWith(line, "#") THEN <<>>
    ELSE IF StartsWith(line, "-") THEN <<>>
    ELSE LET rest == Strip(BeforeFirst(line, "#")) IN
         IF rest = <<>> THEN <<>> ELSE <<rest>>

RECURSIVE ParseLines(_)
ParseLines(lines) ==
    IF lines = <<>> THEN <<>>
    ELSE ParseLine(Head(lines)) \o ParseLines(Tail(lines))

parse_requirements(text) == ParseLines(FileLines(text))

-----------------------------------------------------------------------------
(* generate_dependencies_section *)

\* the text "dependencies = ["
Header == <<"d","e","p","e","n","d","e","n","c","i","e","s"," ","="," ","[">>

Footer == <<"]">>

\* f'    "{formatted}",'
EntryLine(formatted) == <<" ", " ", " ", " ", "\"">> \o formatted \o <<"\"", ",">>

RECURSIVE FormattedDeps_unfiltered(_)
FormattedDeps_unfiltered(reqs) ==
    IF reqs = <<>> THEN <<>>
    ELSE <<EntryLine(format_dependency(Head(reqs)))>> \o FormattedDeps_unfiltered(Tail(reqs))

\* the loop over the requirements: one line per truthy format_dependency result
RECURSIVE FormattedDeps(_)
FormattedDeps(reqs) ==
    IF reqs = <<>> THEN <<>>
    ELSE LET formatted == format_dependency(Head(reqs)) IN
         (IF formatted # None /\ formatted # <<>>
          THEN <<EntryLine(formatted)>> ELSE <<>>) \o FormattedDeps(Tail(reqs))

DepsSection_no_empty_case(formatted_deps) ==
    Header \o <<NL>> \o Join(formatted_deps, <<NL>>) \o <<NL>> \o Footer

\* the if/else that assembles deps_section
DepsSection(formatted_deps) ==
    IF formatted_deps = <<>> THEN Header \o <<NL>> \o Footer
    ELSE Header \o <<NL>> \o Join(formatted_deps, <<NL>>) \o <<NL>> \o Footer

generate_dependencies_section(text) ==
    DepsSection(FormattedDeps(parse_requirements(text)))

-----------------------------------------------------------------------------
(* test_conversion / validate_requirement_conversion *)

OutputLines_counts_footer(generated) ==
    SelectSeq(Split(generated, NL), LAMBDA line : Strip(line) # Header)

\* [line for line in generated.split("\n") if line.strip() not in [...]]
OutputLines(generated) ==
    SelectSeq(Split(generated, NL), LAMBDA line : Strip(line) \notin {Header, Footer})

\* what the validator prints for the two counts
ValidatorMessages(original_count, output_count) ==
    IF original_count = output_count THEN <<"converted">>
    ELSE IF original_count > output_count
         THEN <<"Validation failed", "Some requirements may have been skipped">>
         ELSE <<"Validation failed", "Output has more items than input">>

\* the value the validator returns
validate_requirement_conversion(text, generated) ==
    Len(parse_requirements(text)) = Len(OutputLines(generated))

-----------------------------------------------------------------------------
(* copy_dependencies_to_pyproject and run_uv_command *)

\* re.sub(r"dependencies\s*=\s*\[[\s\S]*?\]", dependencies, text): every
\* non-overlapping match, left to right, each running to the first "]"
RECURSIVE SubDependencies(_, _)
SubDependencies(text, dependencies) ==
    IF text = <<>> THEN <<>>
    ELSE LET j == Find(text, "]", 2) IN
         IF Head(text) = "D[" /\ j > 0
         THEN dependencies \o SubDependencies(SubSeq(text, j + 1, Len(text)), dependencies)
         ELSE <<Head(text)>> \o SubDependencies(Tail(text), dependencies)

\* the outcomes of copy_dependencies_to_pyproject: the text left in the file,
\* and what the call returns ("raise" for the uncaught error of write_text)
copy_dependencies_to_pyproject(exists, writable, text, dependencies) ==
    IF ~exists THEN [text |-> text, result |-> "false"]
    ELSE IF ~writable THEN [text |-> text, result |-> "raise"]
    ELSE LET updated_content == SubDependencies(text, dependencies) IN
         [text |-> updated_content,
          result |-> IF Len(updated_content) > 0 THEN "true" ELSE "false"]

\* the outcomes of run_uv_command: what it prints and what it returns
run_uv_command(onPath) ==
    IF onPath
    THEN {[printed |-> <<"cmd">>, result |-> TRUE],
          [printed |-> <<"cmd", "Error: returncode">>, result |-> FALSE],
          [printed |-> <<"cmd", "Error: exception">>, result |-> FALSE]}
    ELSE {[printed |-> <<"Warning: uv not found">>, result |-> FALSE]}

-----------------------------------------------------------------------------
(* State machines *)

ReqFile == "requirements.txt"
Pyproject == "pyproject.toml"

\* files_to_remove
FilesToRemove == <<ReqFile, ".python-version", "main.py">>

FmtIdle == req = <<>> /\ token = None /\ token2 = None /\ fpc = "idle"

MainIdle ==
    /\ content = <<>> /\ requirements = <<>> /\ block = <<>>
    /\ valid = FALSE /\ validate = FALSE /\ pc = "idle"
    /\ printed = <<>> /\ exitCode = {}

EnvIdle ==
    /\ files = {} /\ manifest = <<>> /\ readonly = FALSE /\ uvOnPath = FALSE
    /\ steps = <<>> /\ deleted = <<>>

\* sys.exit(code), also the exit of the interpreter after an uncaught error
Exit(code) == pc' = "exited" /\ exitCode' = {code}

(* ---- format_dependency as a pure function ---- *)

FormatInit ==
    /\ req \in Texts(ReqAlphabet, MaxReqLen)
    /\ token = None /\ token2 = None /\ fpc = "start"
    /\ MainIdle /\ EnvIdle

Format ==
    /\ fpc = "start"
    /\ token' = format_dependency(req)
    /\ fpc' = "formatted"
    /\ UNCHANGED <<req, token2, convVars, pc, printed, exitCode, envVars>>

\* the formatter applied to its own output
Reformat ==
    /\ fpc = "formatted" /\ token # None
    /\ token2' = format_dependency(token)
    /\ fpc' = "reformatted"
    /\ UNCHANGED <<req, token, convVars, pc, printed, exitCode, envVars>>

FormatNext == Format \/ Reformat

SpecFormat == FormatInit /\ [][FormatNext]_vars

(* ---- main of requirements_to_pyproject.py ---- *)

Init ==
    /\ FmtIdle
    /\ validate \in BOOLEAN
    /\ \/ files = {} /\ content = <<>>
       \/ files = {ReqFile} /\ content \in Texts(FileAlphabet, MaxFileLen)
    /\ manifest = <<>> /\ readonly = FALSE /\ uvOnPath = FALSE
    /\ steps = <<>> /\ deleted = <<>>
    /\ requirements = <<>> /\ block = <<>> /\ valid = FALSE
    /\ pc = "check_path" /\ printed = <<>> /\ exitCode = {}

\* "if not req_path.exists()": the message, then sys.exit(1)
CheckPath ==
    /\ pc = "check_path"
    /\ IF ReqFile \in files
       THEN pc' = "generate" /\ UNCHANGED <<printed, exitCode>>
       ELSE printed' = printed \o <<"Error: File does not exist", "Usage">> /\ Exit(1)
    /\ UNCHANGED <<fmtVars, convVars, envVars>>

\* dependencies_section = generate_dependencies_section(req_path); print(...)
Generate ==
    /\ pc = "generate"
    /\ requirements' = parse_requirements(content)
    /\ block' = generate_dependencies_section(content)
    /\ printed' = Append(printed, "block")
    /\ pc' = IF validate THEN "validate" ELSE "return"
    /\ UNCHANGED <<fmtVars, content, valid, validate, exitCode, envVars>>

\* "if validate: success = test_conversion(...); if not success: sys.exit(1)"
TestConversion ==
    /\ pc = "validate"
    /\ valid' = validate_requirement_conversion(content, block)
    /\ printed' = printed \o ValidatorMessages(Len(parse_requirements(content)),
                                              Len(OutputLines(block)))
    /\ IF valid' THEN pc' = "return" /\ UNCHANGED exitCode ELSE Exit(1)
    /\ UNCHANGED <<fmtVars, content, requirements, block, validate, envVars>>

\* main returns: the interpreter exits with status 0
Return ==
    /\ pc = "return"
    /\ Exit(0)
    /\ UNCHANGED <<fmtVars, convVars, printed, envVars>>

Next == CheckPath \/ Generate \/ TestConversion \/ Return

Spec == Init /\ [][Next]_vars

(* ---- main of uv_requirements_to_pyproject.py ---- *)

UvInitState ==
    /\ FmtIdle
    /\ validate = TRUE
    /\ \/ files = {} /\ content = <<>>
       \/ files = {ReqFile} /\ content \in Texts(FileAlphabet, MaxUvFileLen)
    /\ uvOnPath \in BOOLEAN
    /\ manifest = <<>> /\ readonly = FALSE
    /\ steps = <<>> /\ deleted = <<>>
    /\ requirements = <<>> /\ block = <<>> /\ valid = FALSE
    /\ pc = "check_path" /\ printed = <<>> /\ exitCode = {}

AfterStep_unchecked(success, next) == next

\* "if not success: sys.exit(1)": where main goes after a step
AfterStep(success, next) == IF success THEN next ELSE "exit1"

\* move to position p, "exit1" being sys.exit(1)
Goto(p) == IF p = "exit1" THEN Exit(1) ELSE pc' = p /\ UNCHANGED exitCode

\* an uncaught exception: the interpreter prints the traceback and exits with 1
Raise == printed' = Append(printed, "Traceback") /\ Exit(1)

UvCheckPath ==
    /\ pc = "check_path"
    /\ IF ReqFile \in files
       THEN pc' = "generate" /\ UNCHANGED <<printed, exitCode>>
       ELSE printed' = Append(printed, "Error: File does not exist") /\ Exit(1)
    /\ UNCHANGED <<fmtVars, convVars, envVars>>

UvGenerate ==
    /\ pc = "generate"
    /\ requirements' = parse_requirements(content)
    /\ block' = generate_dependencies_section(content)
    /\ pc' = "validate"
    /\ UNCHANGED <<fmtVars, content, valid, validate, printed, exitCode, envVars>>

UvValidate ==
    /\ pc = "validate"
    /\ valid' = validate_requirement_conversion(content, block)
    /\ printed' = printed \o ValidatorMessages(Len(parse_requirements(content)),
                                              Len(OutputLines(block)))
    /\ steps' = Append(steps, <<"validate", valid'>>)
    /\ Goto(AfterStep(valid', "uv_init"))
    /\ UNCHANGED <<fmtVars, content, requirements, block, validate,
                   files, manifest, readonly, uvOnPath, deleted>>

\* run_uv_command(["uv", "init"]); what the tool leaves behind is the tool's
\* business: any of the scaffold files, pyproject.toml with any text
UvInit ==
    /\ pc = "uv_init"
    /\ \E o \in run_uv_command(uvOnPath) :
        /\ printed' = printed \o o.printed
        /\ steps' = Append(steps, <<"uv init", o.result>>)
        /\ Goto(AfterStep(o.result, "copy"))
        /\ IF o.result
           THEN \E made \in SUBSET {Pyproject, ".python-version", "main.py"} :
                  /\ files' = files \cup made
                  /\ IF Pyproject \in made
                     THEN /\ manifest' \in Texts(ManifestAlphabet, MaxManifestLen)
                          /\ readonly' \in BOOLEAN
                     ELSE UNCHANGED <<manifest, readonly>>
           ELSE UNCHANGED <<files, manifest, readonly>>
    /\ UNCHANGED <<fmtVars, convVars, uvOnPath, deleted>>

\* success = copy_dependencies_to_pyproject(...); the message; sys.exit(1)
UvCopy ==
    /\ pc = "copy"
    /\ LET o == copy_dependencies_to_pyproject(Pyproject \in files, ~readonly,
                                               manifest, block)
       IN /\ manifest' = o.text
          /\ steps' = Append(steps, <<"rewrite", o.result = "true">>)
          /\ IF o.result = "raise" THEN Raise
             ELSE /\ printed' = Append(printed, IF o.result = "true"
                                                THEN "Copied dependencies"
                                                ELSE "Error: Could not write")
                  /\ Goto(AfterStep(o.result = "true", "uv_sync"))
    /\ UNCHANGED <<fmtVars, convVars, files, readonly, uvOnPath, deleted>>

UvSync ==
    /\ pc = "uv_sync"
    /\ \E o \in run_uv_command(uvOnPath) :
        /\ printed' = printed \o o.printed
        /\ steps' = Append(steps, <<"uv sync", o.result>>)
        /\ Goto(AfterStep(o.result, "remove"))
    /\ UNCHANGED <<fmtVars, convVars, files, manifest, readonly, uvOnPath, deleted>>

\* one iteration of "for file in files_to_remove: file.unlink(); print(...)"
UvRemove ==
    /\ pc = "remove"
    /\ LET file == FilesToRemove[Len(deleted) + 1] IN
       IF file \in files
       THEN /\ files' = files \ {file}
            /\ deleted' = Append(deleted, file)
            /\ printed' = Append(printed, "Removed")
            /\ IF Len(deleted') = Len(FilesToRemove)
               THEN pc' = "return" /\ steps' = Append(steps, <<"delete", TRUE>>)
               ELSE UNCHANGED <<pc, steps>>
            /\ UNCHANGED exitCode
       ELSE /\ steps' = Append(steps, <<"delete", FALSE>>)
            /\ Raise
            /\ UNCHANGED <<files, deleted>>
    /\ UNCHANGED <<fmtVars, convVars, manifest, readonly, uvOnPath>>

UvReturn ==
    /\ pc = "return"
    /\ Exit(0)
    /\ UNCHANGED <<fmtVars, convVars, printed, envVars>>

UvNext ==
    UvCheckPath \/ UvGenerate \/ UvValidate \/ UvInit \/ UvCopy \/ UvSync
        \/ UvRemove \/ UvReturn

SpecUv == UvInitState /\ [][UvNext]_vars

-----------------------------------------------------------------------------
(* Properties.  Their helpers restate what the specification says and are    *)
(* written independently of the operators above.                             *)

Chars(s) == {s[k] : k \in 1..Len(s)}

\* indices of s that hold a character other than whitespace
Inked(s) == {k \in 1..Len(s) : s[k] \notin {" ", NL}}

Least(S) == CHOOSE k \in S : \A m \in S : k <= m
Greatest(S) == CHOOSE k \in S : \A m \in S : m <= k

\* s without its leading and trailing whitespace
Trimmed(s) == IF Inked(s) = {} THEN <<>> ELSE SubSeq(s, Least(Inked(s)), Greatest(Inked(s)))

\* s up to, not including, the first c (all of s when c does not occur)
UpTo(s, c) ==
    LET at == {k \in 1..Len(s) : s[k] = c} IN
    IF at = {} THEN s ELSE SubSeq(s, 1, Least(at) - 1)

\* s after the first c
After(s, c) ==
    LET at == {k \in 1..Len(s) : s[k] = c} IN SubSeq(s, Least(at) + 1, Len(s))

\* the concatenation of the texts of a sequence
RECURSIVE Flatten(_)
Flatten(ts) == IF ts = <<>> THEN <<>> ELSE Head(ts) \o Flatten(Tail(ts))

\* generate_dependencies_section has returned
Generated == block # <<>>

\* the lines of the block other than its two bracket lines
EntryCount(b) == Cardinality({k \in 1..Len(b) : b[k] = NL}) - 1

(* ---- C1 ---- *)

\* C1: the block never has more entry lines (emitted tokens) than
\* parse_requirements returned Requirements for the same file content.
C1_TokensAtMostRequirements ==
    Generated => EntryCount(block) <= Len(requirements)

\* a run in which one of two Requirements was dropped
C1_Witness ==
    Generated /\ Len(requirements) = 2 /\ EntryCount(block) = 1

(* ---- C2 ---- *)

\* what one physical line contributes: <<>> for nothing, else the Requirement
LineRequirement(line) ==
    LET t == Trimmed(line) IN
    IF t = <<>> \/ t[1] = "#" \/ t[1] = "-" THEN <<>> ELSE Trimmed(UpTo(t, "#"))

\* the physical lines of a text, without their line breaks
RECURSIVE PhysicalLines(_)
PhysicalLines(text) ==
    IF NL \notin Chars(text) THEN <<text>>
    ELSE <<UpTo(text, NL)>> \o PhysicalLines(After(text, NL))

ExpectedRequirements(text) ==
    LET lines == PhysicalLines(text)
        each == [k \in 1..Len(lines) |-> LineRequirement(lines[k])]
    IN SelectSeq(each, LAMBDA r : r # <<>>)

\* C2: parse_requirements returns, in input order and with duplicates kept,
\* the stripped, comment-truncated text of every line that is not empty, a
\* comment or an option.
C2_ParseExact ==
    Generated => requirements = ExpectedRequirements(content)

\* a file with a trailing comment whose two Requirements are equal
C2_Witness ==
    /\ Generated /\ Len(requirements) = 2 /\ requirements[1] = requirements[2]
    /\ "#" \in Chars(content)

(* ---- C3 ---- *)

Squeezed(s) == SelectSeq(s, LAMBDA c : c \notin {" ", NL})

\* C3: a token with version fragments is the name followed by the fragments,
\* each without any whitespace, joined by ","; the token holds no whitespace.
C3_TokenWithoutWhitespace ==
    LET r == TruncateMarker(RemoveExtras(req))
        fragments == FindVersions(r, 1)
    IN fpc # "start" /\ token # None /\ fragments # <<>> =>
        /\ token = NameMatch(r) \o
                   Join([k \in 1..Len(fragments) |-> Squeezed(fragments[k])], <<",">>)
        /\ \A k \in 1..Len(token) : token[k] \notin {" ", NL}

(* ---- C4 ---- *)

\* every "[" of r is followed, later in r, by a "]"
BracketsClosed(r) ==
    \A i \in 1..Len(r) : r[i] = "[" => \E j \in (i + 1)..Len(r) : r[j] = "]"

\* C4 as stated: whatever follows the first ";" does not change the result.
C4_MarkerDiscarded ==
    fpc # "start" /\ ";" \in Chars(req) => token = format_dependency(UpTo(req, ";"))

\* C4 as amended: whatever follows the first ";" does not change the result
\* when every "[" before that ";" is closed before it.
C4_MarkerDiscardedWhenBracketsClosed ==
    fpc # "start" /\ ";" \in Chars(req) /\ BracketsClosed(UpTo(req, ";")) =>
        token = format_dependency(UpTo(req, ";"))

\* a Requirement with a bracket before the ";" and a "]" in the marker
C4_Witness ==
    /\ fpc # "start" /\ ";" \in Chars(req) /\ token # None
    /\ BracketsClosed(UpTo(req, ";"))
    /\ "[" \in Chars(UpTo(req, ";"))
    /\ "]" \in Chars(After(req, ";"))

(* ---- C5 ---- *)

\* test_conversion has returned
Validated == validate /\ Generated /\ pc \in {"return", "exited"}

\* the text left of a Requirement does not start with a name character
Unparseable(r) ==
    LET t == TruncateMarker(RemoveExtras(r)) IN
    t = <<>> \/ t[1] \notin {"a", "1", "_", "-", "."}

Dropped(reqs) == {k \in 1..Len(reqs) : Unparseable(reqs[k])}

\* C5: a Requirement without a leading name character gives no token and no
\* block line, and the validator succeeds exactly when the counts are equal,
\* which is exactly when no Requirement was dropped.
C5_ValidatorSeesDrops ==
    Validated =>
        /\ \A k \in Dropped(requirements) : format_dependency(requirements[k]) = None
        /\ EntryCount(block) = Len(requirements) - Cardinality(Dropped(requirements))
        /\ valid <=> (Len(requirements) = EntryCount(block))
        /\ valid <=> (Dropped(requirements) = {})

\* a validated run that failed: one Requirement kept, one dropped
C5_Witness ==
    /\ Validated /\ ~valid /\ exitCode = {1}
    /\ Len(requirements) = 2 /\ Cardinality(Dropped(requirements)) = 1

(* ---- C6 ---- *)

EmittedTokens(reqs) ==
    SelectSeq([k \in 1..Len(reqs) |-> format_dependency(reqs[k])],
              LAMBDA t : t # None)

ExpectedBlock(tokens) ==
    Header
    \o Flatten([k \in 1..Len(tokens) |->
                  <<NL, " ", " ", " ", " ", "\"">> \o tokens[k] \o <<"\"", ",">>])
    \o <<NL, "]">>

\* C6: the block is the line "dependencies = [", one line of four spaces,
\* quote, token, quote, comma per emitted token in order, and the line "]";
\* with no token it is the two bracket lines alone.
C6_BlockExact ==
    Generated => block = ExpectedBlock(EmittedTokens(requirements))

\* three Requirements, the middle one dropped
C6_Witness ==
    /\ Generated /\ Len(requirements) = 3 /\ Dropped(requirements) = {2}
    /\ EntryCount(block) = 2

(* ---- C7 ---- *)

Order == <<"validate", "uv init", "rewrite", "uv sync", "delete">>

Failed(k) == k <= Len(steps) /\ ~steps[k][2]

\* C7: the steps run in the order validate, uv init, rewrite, uv sync,
\* delete, each after the previous one succeeded; files are deleted only
\* after the first four succeeded, and none is deleted when one of them failed.
C7_DeleteOnlyAfterSuccess ==
    /\ Len(steps) <= Len(Order)
    /\ \A k \in 1..Len(steps) :
          steps[k][1] = Order[k] /\ (k < Len(steps) => steps[k][2])
    /\ deleted # <<>> => Len(steps) >= 4 /\ \A k \in 1..4 : steps[k][2]
    /\ (\E k \in 1..4 : Failed(k)) => deleted = <<>> /\ ReqFile \in files

\* a run that deleted the three files and ended with status 0
C7_Witness ==
    /\ deleted = FilesToRemove /\ exitCode = {0}
    /\ Len(steps) = Len(Order)

(* ---- C8 ---- *)

\* the messages main and its callees print on a failure
FailureMessages ==
    {"Error: File does not exist", "Some requirements may have been skipped",
     "Output has more items than input", "Warning: uv not found",
     "Error: returncode", "Error: exception", "Error: Could not write"}

\* C8: a run that ends with status 1 has printed a failure message last, and
\* a run ends with status 0 only when all five steps, the deletion of the
\* three files included, succeeded.
C8_FailurePrintsMessage ==
    /\ exitCode = {1} => printed # <<>> /\ printed[Len(printed)] \in FailureMessages
    /\ exitCode = {0} =>
          /\ Len(steps) = Len(Order) /\ \A k \in 1..Len(steps) : steps[k][2]
          /\ deleted = FilesToRemove
    /\ pc = "exited" => exitCode \in {{0}, {1}}

(* ---- C9 ---- *)

\* text with its first "D[" ... "]" block replaced
FirstBlockReplaced(text, dependencies) ==
    LET opens == {i \in 1..Len(text) :
                    text[i] = "D[" /\ \E j \in (i + 1)..Len(text) : text[j] = "]"}
    IN IF opens = {} THEN text
       ELSE LET i == Least(opens)
                j == Least({k \in (i + 1)..Len(text) : text[k] = "]"})
            IN SubSeq(text, 1, i - 1) \o dependencies \o SubSeq(text, j + 1, Len(text))

\* C9: the rewrite replaces the first dependencies block of the manifest and
\* leaves every later block, and all other text, as it was.
C9_OnlyFirstBlockRewritten ==
    [][pc = "copy" /\ Pyproject \in files /\ ~readonly =>
          manifest' = FirstBlockReplaced(manifest, block)]_vars

(* ---- C10 ---- *)

\* C10: formatting a token again returns the same token.
C10_Idempotent ==
    fpc = "reformatted" => token2 = token

\* a token of two fragments that differs from the Requirement it came from
C10_Witness ==
    fpc = "reformatted" /\ token2 # None /\ token # req /\ "," \in Chars(token)

=============================================================================
